---- MODULE Spec2Model ----
(***************************************************************************)
(* A model of two thread-boundary components of the WebRTC pipeline layer: *)
(*   - FrameCadenceAdapterImpl  (video/frame_cadence_adapter.cc)           *)
(*   - internal::AudioState     (audio/audio_state.cc)                     *)
(* Each component has its own specifications (for the adapter: Spec,       *)
(* FairSpec with an owner thread that keeps running, UmaSpec for the       *)
(* telemetry function on its full input range; for the audio state:        *)
(* AudioSpec for send streams and playout, RecordingSpec for recording,    *)
(* RefSpec for the reference count); the other component's variables stay  *)
(* at their constructed values.                                            *)
(***************************************************************************)
EXTENDS Integers, Sequences, FiniteSets

\* ------------------------------------------------------------------ bounds
MaxFrames == 3        \* frames the source hands over (OnFrame or OnDiscardedFrame)
MaxQueue == 2         \* tasks waiting in queue_ at once
MaxFps == 61          \* fps values drawn for the telemetry function (UmaSpec)
MaxStreams == 2       \* distinct AudioSendStream objects
MaxStreamCalls == 3   \* Add/RemoveSendingStream calls in one behaviour
MaxRun == 2           \* consecutive SetPlayout calls with the same argument
MaxRecordingCalls == 2 \* SetRecording calls in one behaviour
MaxHolders == 2       \* threads holding references to the AudioState
MaxRefs == 3          \* value ref_count_ may reach

\* absl::nullopt for min_fps / max_fps; the source logs it as value_or(-1).
NoValue == -1

VARIABLES
  \* ---- FrameCadenceAdapterImpl: members
  callback_,                                  \* TRUE once Initialize ran
  source_constraints_,                        \* optional<VideoTrackSourceConstraints>
  zero_hertz_and_uma_reporting_enabled_,
  has_reported_screenshare_frame_rate_umas_,
  frames_scheduled_for_processing_,           \* std::atomic<int>
  safety_,                                    \* the safety flag is alive
  \* ---- collaborators of the adapter
  queue_,                                     \* tasks posted and not yet taken
  clock_,                                     \* what Clock::CurrentTime() returns next
  \* ---- positions of the two threads
  on_frame_pc, on_frame_post_time,            \* producer inside OnFrame
  task_pc, task_post_time, task_frame, task_count, \* owner inside a frame task
  \* ---- what the adapter's collaborators have observed
  frames_issued,                              \* OnFrame calls that incremented
  delivered,                                  \* Callback::OnFrame invocations
  last_delivery,                              \* arguments of the last one
  discarded,                                  \* Callback::OnDiscardedFrame invocations
  samples,                                    \* histogram samples of the last report
  uma_reports,                                \* reports so far
  session_emits,                              \* reports since zero-hertz mode last went on
  session_checks,                             \* telemetry checks run enabled since then
  dropped_tasks,                              \* tasks whose closure did not run
  \* ---- what the producer has asked of the adapter
  discard_calls,                              \* OnDiscardedFrame calls
  posted_constraints,                         \* argument of the last OnConstraintsChanged
  posted_before,                              \* frame in flight -> posted_constraints
                                              \* when OnFrame posted its task
  \* ---- internal::AudioState: build and lifetime
  dcheck_is_on,                               \* RTC_DCHECK is compiled in
  audio_state,                                \* "alive", "destroyed" or "aborted"
  \* ---- AudioState: members
  sending_streams_,                           \* stream -> StreamProperties
  null_audio_poller_,                         \* the NullAudioPoller exists
  ref_count_,
  \* ---- position of the worker thread inside SetPlayout
  set_playout_pc, set_playout_enabled,
  \* ---- position of each holder inside Release
  release_pc, release_result,
  \* ---- what the AudioState's collaborators have observed
  sending_update,                             \* last UpdateSendingStreams arguments
  updates,                                    \* UpdateSendingStreams calls
  absent_removes,                             \* RemoveSendingStream calls on an absent
                                              \* stream that returned
  last_op,                                    \* last stream call that returned
  stream_calls,                               \* Add/RemoveSendingStream calls that returned
  last_add,                                   \* arguments of the last stream call, if
                                              \* it was AddSendingStream
  voe_playout,                                \* last argument of voe_base_->SetPlayout
  voe_recording,                              \* last argument of voe_base_->SetRecording
  recording_calls,                            \* voe_base_->SetRecording calls
  set_recording_args,                         \* arguments of the AudioState::SetRecording
                                              \* calls, in call order
  run_arg, run_len,                           \* current run of equal SetPlayout calls
  run_voe_calls, run_poller_ops,              \* transport calls, poller changes in it
  run_first_changed,                          \* its first call found the other state
  held,                                       \* references each holder owns
  last_status,                                \* what each holder's last Release returned
  deletes                                     \* times `delete this` ran

members ==
  << source_constraints_, zero_hertz_and_uma_reporting_enabled_,
     has_reported_screenshare_frame_rate_umas_ >>
producer_pos == << on_frame_pc, on_frame_post_time >>
task_pos == << task_pc, task_post_time, task_frame, task_count >>
callback_obs == << delivered, last_delivery, discarded >>
uma_obs == << samples, uma_reports, session_emits, session_checks >>
producer_obs == << discard_calls, posted_constraints, posted_before >>

cadence_vars ==
  << callback_, members, frames_scheduled_for_processing_, safety_, queue_,
     clock_, producer_pos, task_pos, frames_issued, callback_obs, uma_obs,
     dropped_tasks, producer_obs >>

stream_vars ==
  << sending_streams_, sending_update, updates, absent_removes, last_op,
     stream_calls, last_add >>
playout_vars ==
  << null_audio_poller_, voe_playout, set_playout_pc, set_playout_enabled,
     run_arg, run_len, run_voe_calls, run_poller_ops, run_first_changed >>
recording_vars ==
  << voe_recording, recording_calls, set_recording_args >>
ref_vars ==
  << ref_count_, held, release_pc, release_result, last_status, deletes >>

audio_vars ==
  << dcheck_is_on, audio_state, stream_vars, playout_vars, recording_vars,
     ref_vars >>

vars == << cadence_vars, audio_vars >>

\* ------------------------------------------------ values and pure functions
has_value(x) == x # NoValue

nullopt_constraints ==
  [has_value |-> FALSE, min_fps |-> NoValue, max_fps |-> NoValue]

Constraints(min, max) ==
  [has_value |-> TRUE, min_fps |-> min, max_fps |-> max]

\* The values the producer passes to OnConstraintsChanged in Spec: min unset,
\* min < max, min > max.  UmaSpec covers the whole range.
ConstraintInputs ==
  { Constraints(NoValue, 30), Constraints(10, 30), Constraints(30, 10) }

\* 60 * 60 + 60 - 1
kMaxBucketCount == (60 * 60 + 60) - 1

BoolSample(b) == IF b THEN 1 ELSE 0

\* Whether the joint histogram is recorded once both values are present.
JointRecorded_OnlyMinLessThanMax(c) == c.min_fps < c.max_fps

JointRecorded(c) == TRUE

\* The sample of the joint histogram.
JointSample_NoMinusOne(c) == c.min_fps * 60 + c.max_fps

JointSample(c) == (c.min_fps * 60 + c.max_fps) - 1

\* The samples MaybeReportFrameRateConstraintUmas records once it is past its
\* two early returns: a set of <<histogram name, sample>>, booleans as 0/1.
UmaSamples(c) ==
  {<<"Exists", BoolSample(c.has_value)>>}
  \cup
  (IF ~c.has_value THEN {}
   ELSE
     {<<"Min.Exists", BoolSample(has_value(c.min_fps))>>}
     \cup (IF has_value(c.min_fps) THEN {<<"Min.Value", c.min_fps>>} ELSE {})
     \cup {<<"Max.Exists", BoolSample(has_value(c.max_fps))>>}
     \cup (IF has_value(c.max_fps) THEN {<<"Max.Value", c.max_fps>>} ELSE {})
     \cup
     (IF ~has_value(c.min_fps)
        THEN (IF has_value(c.max_fps)
                THEN {<<"MinUnset.Max", c.max_fps>>}
                ELSE {})
        ELSE IF has_value(c.max_fps)
          THEN
            (IF c.min_fps < c.max_fps
               THEN {<<"MinLessThanMax.Min", c.min_fps>>,
                     <<"MinLessThanMax.Max", c.max_fps>>}
               ELSE {})
            \cup (IF JointRecorded(c)
                    THEN {<<"60MinPlusMaxMinusOne", JointSample(c)>>}
                    ELSE {})
          ELSE {}))

\* ------------------------------------------------------------- scheduler
\* The closure OnFrame posts, wrapped with safety_.flag().
FrameTask_NoSafetyFlag(post_time, frame) ==
  [kind |-> "frame", flag |-> FALSE, post_time |-> post_time, frame |-> frame,
   constraints |-> nullopt_constraints]

FrameTask(post_time, frame) ==
  [kind |-> "frame", flag |-> TRUE, post_time |-> post_time, frame |-> frame,
   constraints |-> nullopt_constraints]

\* The closure OnConstraintsChanged posts, wrapped with safety_.flag().
ConstraintsTask(c) ==
  [kind |-> "constraints", flag |-> TRUE, post_time |-> 0, frame |-> 0,
   constraints |-> c]

\* TaskQueueBase::PostTask: tasks run in post order, one at a time.
PostTask(task) == queue_' = Append(queue_, task)

\* ToQueuedTask(flag, closure): the closure runs only while the flag is alive.
RunsClosure(task) == task.flag => safety_

\* ----------------------------------------------------------------- Init
CadenceInit ==
  /\ callback_ = FALSE
  /\ source_constraints_ = nullopt_constraints
  /\ zero_hertz_and_uma_reporting_enabled_ = FALSE
  /\ has_reported_screenshare_frame_rate_umas_ = FALSE
  /\ frames_scheduled_for_processing_ = 0
  /\ safety_ = TRUE
  /\ queue_ = << >>
  /\ clock_ = 0
  /\ on_frame_pc = "idle"
  /\ on_frame_post_time = 0
  /\ task_pc = "idle"
  /\ task_post_time = 0
  /\ task_frame = 0
  /\ task_count = 0
  /\ frames_issued = 0
  /\ delivered = 0
  /\ last_delivery = [post_time |-> 0, count |-> 0, frame |-> 0]
  /\ discarded = 0
  /\ samples = {}
  /\ uma_reports = 0
  /\ session_emits = 0
  /\ session_checks = 0
  /\ dropped_tasks = 0
  /\ discard_calls = 0
  /\ posted_constraints = nullopt_constraints
  /\ posted_before = [f \in 1..MaxFrames |-> nullopt_constraints]

\* -------------------------------------------------------------- actions
\* Initialize(callback)
Initialize ==
  /\ safety_ /\ ~callback_
  /\ callback_' = TRUE
  /\ UNCHANGED << members, frames_scheduled_for_processing_, safety_, queue_,
                  clock_, producer_pos, task_pos, frames_issued, callback_obs,
                  uma_obs, dropped_tasks >>
  /\ UNCHANGED producer_obs
  /\ UNCHANGED audio_vars

\* The condition under which SetZeroHertzModeEnabled clears the has-reported
\* flag.
ResetsHasReported_WheneverEnabled(enabled) == enabled

ResetsHasReported_Never(enabled) == FALSE

ResetsHasReported(enabled) ==
  enabled /\ ~zero_hertz_and_uma_reporting_enabled_

\* SetZeroHertzModeEnabled(enabled), on the queue.  A session starts when the
\* flag goes from false to true.
SetZeroHertzModeEnabled(enabled) ==
  /\ safety_ /\ task_pc = "idle"
  /\ has_reported_screenshare_frame_rate_umas_' =
       IF ResetsHasReported(enabled)
         THEN FALSE
         ELSE has_reported_screenshare_frame_rate_umas_
  /\ zero_hertz_and_uma_reporting_enabled_' = enabled
  /\ IF enabled /\ ~zero_hertz_and_uma_reporting_enabled_
       THEN /\ session_emits' = 0
            /\ session_checks' = 0
       ELSE UNCHANGED << session_emits, session_checks >>
  /\ UNCHANGED << callback_, source_constraints_,
                  frames_scheduled_for_processing_, safety_, queue_, clock_,
                  producer_pos, task_pos, frames_issued, callback_obs, samples,
                  uma_reports, dropped_tasks >>
  /\ UNCHANGED producer_obs
  /\ UNCHANGED audio_vars

\* OnFrame, first half: read the clock, fetch_add(1).  The clock moves on by
\* one unit after every reading, so each frame has its own arrival time and
\* every delivery happens later than the arrival.
OnFrameIncrement ==
  /\ safety_ /\ callback_
  /\ on_frame_pc = "idle"
  /\ frames_issued + discarded < MaxFrames
  /\ on_frame_post_time' = clock_
  /\ frames_scheduled_for_processing_' = frames_scheduled_for_processing_ + 1
  /\ frames_issued' = frames_issued + 1
  /\ on_frame_pc' = "post"
  /\ clock_' = clock_ + 1
  /\ UNCHANGED << callback_, members, safety_, queue_, task_pos,
                  callback_obs, uma_obs, dropped_tasks >>
  /\ UNCHANGED producer_obs
  /\ UNCHANGED audio_vars

\* OnFrame, second half: post the task.  Frames are numbered in call order.
OnFramePost ==
  /\ on_frame_pc = "post"
  /\ Len(queue_) < MaxQueue
  /\ PostTask(FrameTask(on_frame_post_time, frames_issued))
  /\ on_frame_pc' = "idle"
  /\ on_frame_post_time' = 0
  /\ UNCHANGED << callback_, members, frames_scheduled_for_processing_,
                  safety_, clock_, task_pos, frames_issued, callback_obs,
                  uma_obs, dropped_tasks >>
  /\ posted_before' = [posted_before EXCEPT ![frames_issued] = posted_constraints]
  /\ UNCHANGED << discard_calls, posted_constraints >>
  /\ UNCHANGED audio_vars

\* OnDiscardedFrame()
OnDiscardedFrame_Counted ==
  /\ safety_ /\ callback_
  /\ frames_issued + discarded < MaxFrames
  /\ discarded' = discarded + 1
  /\ discard_calls' = discard_calls + 1
  /\ frames_scheduled_for_processing_' = frames_scheduled_for_processing_ + 1
  /\ UNCHANGED << callback_, members, safety_, queue_, clock_, producer_pos,
                  task_pos, frames_issued, delivered, last_delivery, uma_obs,
                  dropped_tasks, posted_constraints, posted_before >>
  /\ UNCHANGED audio_vars

OnDiscardedFrame ==
  /\ safety_ /\ callback_
  /\ frames_issued + discarded < MaxFrames
  /\ discarded' = discarded + 1
  /\ discard_calls' = discard_calls + 1
  /\ UNCHANGED << callback_, members, frames_scheduled_for_processing_,
                  safety_, queue_, clock_, producer_pos, task_pos,
                  frames_issued, delivered, last_delivery, uma_obs,
                  dropped_tasks, posted_constraints, posted_before >>
  /\ UNCHANGED audio_vars

\* OnConstraintsChanged(constraints)
OnConstraintsChanged(c) ==
  /\ safety_
  /\ Len(queue_) < MaxQueue
  /\ PostTask(ConstraintsTask(c))
  /\ posted_constraints' = c
  /\ UNCHANGED << callback_, members, frames_scheduled_for_processing_,
                  safety_, clock_, producer_pos, task_pos, frames_issued,
                  callback_obs, uma_obs, dropped_tasks, discard_calls,
                  posted_before >>
  /\ UNCHANGED audio_vars

\* The task OnConstraintsChanged posted runs.
ConstraintsTaskRun_Merged ==
  /\ task_pc = "idle"
  /\ queue_ # << >>
  /\ Head(queue_).kind = "constraints"
  /\ RunsClosure(Head(queue_))
  /\ LET new == Head(queue_).constraints
         old == source_constraints_
     IN source_constraints_' =
          IF ~old.has_value THEN new
          ELSE Constraints(
                 IF has_value(new.min_fps) THEN new.min_fps ELSE old.min_fps,
                 IF has_value(new.max_fps) THEN new.max_fps ELSE old.max_fps)
  /\ queue_' = Tail(queue_)
  /\ UNCHANGED << callback_, zero_hertz_and_uma_reporting_enabled_,
                  has_reported_screenshare_frame_rate_umas_,
                  frames_scheduled_for_processing_, safety_, clock_,
                  producer_pos, task_pos, frames_issued, callback_obs, uma_obs,
                  dropped_tasks >>
  /\ UNCHANGED producer_obs
  /\ UNCHANGED audio_vars

ConstraintsTaskRun ==
  /\ task_pc = "idle"
  /\ queue_ # << >>
  /\ Head(queue_).kind = "constraints"
  /\ RunsClosure(Head(queue_))
  /\ source_constraints_' = Head(queue_).constraints
  /\ queue_' = Tail(queue_)
  /\ UNCHANGED << callback_, zero_hertz_and_uma_reporting_enabled_,
                  has_reported_screenshare_frame_rate_umas_,
                  frames_scheduled_for_processing_, safety_, clock_,
                  producer_pos, task_pos, frames_issued, callback_obs, uma_obs,
                  dropped_tasks >>
  /\ UNCHANGED producer_obs
  /\ UNCHANGED audio_vars

\* What fetch_sub(1) hands to the task: the value before the decrement.
FetchSubResult_AfterDecrement == frames_scheduled_for_processing_ - 1

FetchSubResult == frames_scheduled_for_processing_

\* The task OnFrame posted, first step: fetch_sub(1).
FrameTaskFetchSub_NoDecrement ==
  /\ task_pc = "idle"
  /\ queue_ # << >>
  /\ Head(queue_).kind = "frame"
  /\ RunsClosure(Head(queue_))
  /\ task_count' = FetchSubResult
  /\ task_post_time' = Head(queue_).post_time
  /\ task_frame' = Head(queue_).frame
  /\ queue_' = Tail(queue_)
  /\ task_pc' = "deliver"
  /\ UNCHANGED << callback_, members, frames_scheduled_for_processing_,
                  safety_, clock_, producer_pos, frames_issued, callback_obs,
                  uma_obs, dropped_tasks >>
  /\ UNCHANGED producer_obs
  /\ UNCHANGED audio_vars

FrameTaskFetchSub ==
  /\ task_pc = "idle"
  /\ queue_ # << >>
  /\ Head(queue_).kind = "frame"
  /\ RunsClosure(Head(queue_))
  /\ task_count' = FetchSubResult
  /\ frames_scheduled_for_processing_' = frames_scheduled_for_processing_ - 1
  /\ task_post_time' = Head(queue_).post_time
  /\ task_frame' = Head(queue_).frame
  /\ queue_' = Tail(queue_)
  /\ task_pc' = "deliver"
  /\ UNCHANGED << callback_, members, safety_, clock_, producer_pos,
                  frames_issued, callback_obs, uma_obs, dropped_tasks >>
  /\ UNCHANGED producer_obs
  /\ UNCHANGED audio_vars

\* Second step: OnFrameOnMainQueue hands the frame to the callback.
OnFrameOnMainQueue_DeliveryTime ==
  /\ task_pc = "deliver"
  /\ delivered' = delivered + 1
  /\ last_delivery' = [post_time |-> clock_, count |-> task_count,
                        frame |-> task_frame]
  /\ task_pc' = "report"
  /\ UNCHANGED << callback_, members, frames_scheduled_for_processing_,
                  safety_, queue_, clock_, producer_pos, task_post_time,
                  task_frame, task_count, frames_issued, discarded, uma_obs,
                  dropped_tasks >>
  /\ UNCHANGED producer_obs
  /\ UNCHANGED audio_vars

OnFrameOnMainQueue ==
  /\ task_pc = "deliver"
  /\ delivered' = delivered + 1
  /\ last_delivery' = [post_time |-> task_post_time, count |-> task_count,
                        frame |-> task_frame]
  /\ task_pc' = "report"
  /\ UNCHANGED << callback_, members, frames_scheduled_for_processing_,
                  safety_, queue_, clock_, producer_pos, task_post_time,
                  task_frame, task_count, frames_issued, discarded, uma_obs,
                  dropped_tasks >>
  /\ UNCHANGED producer_obs
  /\ UNCHANGED audio_vars

\* Third step: MaybeReportFrameRateConstraintUmas, which ends the task.
MaybeReportFrameRateConstraintUmas_MarkOnEmit ==
  /\ task_pc = "report"
  /\ IF has_reported_screenshare_frame_rate_umas_
        \/ ~zero_hertz_and_uma_reporting_enabled_
       THEN UNCHANGED << has_reported_screenshare_frame_rate_umas_, samples,
                         uma_reports, session_emits >>
       ELSE /\ has_reported_screenshare_frame_rate_umas_' = TRUE
            /\ samples' = UmaSamples(source_constraints_)
            /\ uma_reports' = uma_reports + 1
            /\ session_emits' = session_emits + 1
  /\ session_checks' = IF zero_hertz_and_uma_reporting_enabled_
                         THEN session_checks + 1
                         ELSE session_checks
  /\ task_pc' = "idle"
  /\ task_post_time' = 0
  /\ task_frame' = 0
  /\ task_count' = 0
  /\ UNCHANGED << callback_, source_constraints_,
                  zero_hertz_and_uma_reporting_enabled_,
                  frames_scheduled_for_processing_, safety_, queue_, clock_,
                  producer_pos, frames_issued, callback_obs, dropped_tasks >>
  /\ posted_before' = [posted_before EXCEPT ![task_frame] = nullopt_constraints]
  /\ UNCHANGED << discard_calls, posted_constraints >>
  /\ UNCHANGED audio_vars

MaybeReportFrameRateConstraintUmas ==
  /\ task_pc = "report"
  /\ IF has_reported_screenshare_frame_rate_umas_
       THEN UNCHANGED << has_reported_screenshare_frame_rate_umas_, samples,
                         uma_reports, session_emits >>
       ELSE /\ has_reported_screenshare_frame_rate_umas_' = TRUE
            /\ IF ~zero_hertz_and_uma_reporting_enabled_
                 THEN UNCHANGED << samples, uma_reports, session_emits >>
                 ELSE /\ samples' = UmaSamples(source_constraints_)
                      /\ uma_reports' = uma_reports + 1
                      /\ session_emits' = session_emits + 1
  /\ session_checks' = IF zero_hertz_and_uma_reporting_enabled_
                         THEN session_checks + 1
                         ELSE session_checks
  /\ task_pc' = "idle"
  /\ task_post_time' = 0
  /\ task_frame' = 0
  /\ task_count' = 0
  /\ UNCHANGED << callback_, source_constraints_,
                  zero_hertz_and_uma_reporting_enabled_,
                  frames_scheduled_for_processing_, safety_, queue_, clock_,
                  producer_pos, frames_issued, callback_obs, dropped_tasks >>
  /\ posted_before' = [posted_before EXCEPT ![task_frame] = nullopt_constraints]
  /\ UNCHANGED << discard_calls, posted_constraints >>
  /\ UNCHANGED audio_vars

\* A task whose safety flag is no longer alive is taken and not run.
DropTask ==
  /\ task_pc = "idle"
  /\ queue_ # << >>
  /\ ~RunsClosure(Head(queue_))
  /\ queue_' = Tail(queue_)
  /\ dropped_tasks' = dropped_tasks + 1
  /\ UNCHANGED << callback_, members, frames_scheduled_for_processing_,
                  safety_, clock_, producer_pos, task_pos, frames_issued,
                  callback_obs, uma_obs >>
  /\ UNCHANGED producer_obs
  /\ UNCHANGED audio_vars

\* ~FrameCadenceAdapterImpl, on the queue and with no OnFrame call in
\* progress: safety_ marks its flag not alive.
Destroy ==
  /\ safety_
  /\ task_pc = "idle"
  /\ on_frame_pc = "idle"
  /\ safety_' = FALSE
  /\ UNCHANGED << callback_, members, frames_scheduled_for_processing_,
                  queue_, clock_, producer_pos, task_pos, frames_issued,
                  callback_obs, uma_obs, dropped_tasks >>
  /\ UNCHANGED producer_obs
  /\ UNCHANGED audio_vars

\* ====================================================== internal::AudioState
StreamIds == 1..MaxStreams
Holders == 1..MaxHolders

\* The thread the AudioState was constructed on (thread_checker_).
WorkerThread == 1

SampleRates == {4000, 16000, 48000}
NumChannels == {1, 2}

StreamProperties(sample_rate_hz, num_channels) ==
  [sample_rate_hz |-> sample_rate_hz, num_channels |-> num_channels]

max(a, b) == IF a < b THEN b ELSE a

\* The loop of UpdateAudioTransportWithSendingStreams over the std::map, in
\* key order.
RECURSIVE SendingStreamsLoop(_, _, _)
SendingStreamsLoop(m, keys, acc) ==
  IF keys = {} THEN acc
  ELSE LET kv == CHOOSE k \in keys : \A other \in keys : k <= other
       IN SendingStreamsLoop(
            m, keys \ {kv},
            [sending_streams |-> Append(acc.sending_streams, kv),
             max_sample_rate_hz |->
               max(acc.max_sample_rate_hz, m[kv].sample_rate_hz),
             max_num_channels |->
               max(acc.max_num_channels, m[kv].num_channels)])

\* The arguments UpdateAudioTransportWithSendingStreams hands to
\* audio_transport_.UpdateSendingStreams for the map m.
UpdateAudioTransportWithSendingStreams_RunningMax(m) ==
  SendingStreamsLoop(m, DOMAIN m,
    [sending_streams |-> << >>,
     max_sample_rate_hz |-> max(8000, sending_update.max_sample_rate_hz),
     max_num_channels |-> max(1, sending_update.max_num_channels)])

UpdateAudioTransportWithSendingStreams(m) ==
  SendingStreamsLoop(m, DOMAIN m,
    [sending_streams |-> << >>, max_sample_rate_hz |-> 8000,
     max_num_channels |-> 1])

\* No AddSendingStream call is the last stream call.
no_add == [stream |-> 0, sample_rate_hz |-> 0, num_channels |-> 0]

AudioConstructed ==
  /\ audio_state = "alive"
  /\ sending_streams_ = << >>
  /\ null_audio_poller_ = FALSE
  /\ ref_count_ = 1
  /\ set_playout_pc = "idle"
  /\ set_playout_enabled = TRUE
  /\ release_pc = [h \in Holders |-> "idle"]
  /\ release_result = [h \in Holders |-> 0]
  /\ sending_update = [sending_streams |-> << >>, max_sample_rate_hz |-> 0,
                       max_num_channels |-> 0]
  /\ updates = 0
  /\ absent_removes = 0
  /\ last_op = "none"
  /\ stream_calls = 0
  /\ last_add = no_add
  /\ voe_playout = TRUE
  /\ voe_recording = FALSE
  /\ recording_calls = 0
  /\ set_recording_args = << >>
  /\ run_arg = TRUE
  /\ run_len = 0
  /\ run_voe_calls = 0
  /\ run_poller_ops = 0
  /\ run_first_changed = FALSE
  /\ held = [h \in Holders |-> IF h = WorkerThread THEN 1 ELSE 0]
  /\ last_status = [h \in Holders |-> "none"]
  /\ deletes = 0

\* A call on the worker thread: the object is alive, some holder keeps a
\* reference for the caller, and the thread is not inside SetPlayout.
WorkerCall ==
  /\ audio_state = "alive"
  /\ \E h \in Holders : held[h] > 0
  /\ set_playout_pc = "idle"

\* AddSendingStream(stream, sample_rate_hz, num_channels)
AddSendingStream_InsertOnly(stream, sample_rate_hz, num_channels) ==
  /\ WorkerCall
  /\ stream_calls < MaxStreamCalls
  /\ LET properties == StreamProperties(sample_rate_hz, num_channels)
         m == [s \in DOMAIN sending_streams_ \cup {stream} |->
                 IF s \in DOMAIN sending_streams_
                   THEN sending_streams_[s] ELSE properties]
     IN /\ sending_streams_' = m
        /\ sending_update' = UpdateAudioTransportWithSendingStreams(m)
  /\ updates' = updates + 1
  /\ last_op' = "add"
  /\ stream_calls' = stream_calls + 1
  /\ last_add' = [stream |-> stream, sample_rate_hz |-> sample_rate_hz,
                  num_channels |-> num_channels]
  /\ UNCHANGED << dcheck_is_on, audio_state, absent_removes, playout_vars,
                  recording_vars, ref_vars >>
  /\ UNCHANGED cadence_vars

AddSendingStream(stream, sample_rate_hz, num_channels) ==
  /\ WorkerCall
  /\ stream_calls < MaxStreamCalls
  /\ LET properties == StreamProperties(sample_rate_hz, num_channels)
         m == [s \in DOMAIN sending_streams_ \cup {stream} |->
                 IF s = stream THEN properties ELSE sending_streams_[s]]
     IN /\ sending_streams_' = m
        /\ sending_update' = UpdateAudioTransportWithSendingStreams(m)
  /\ updates' = updates + 1
  /\ last_op' = "add"
  /\ stream_calls' = stream_calls + 1
  /\ last_add' = [stream |-> stream, sample_rate_hz |-> sample_rate_hz,
                  num_channels |-> num_channels]
  /\ UNCHANGED << dcheck_is_on, audio_state, absent_removes, playout_vars,
                  recording_vars, ref_vars >>
  /\ UNCHANGED cadence_vars

\* RTC_DCHECK_EQ(1, count) fails.
RemoveDcheckFails_Never(count) == FALSE

RemoveDcheckFails(count) == dcheck_is_on /\ count # 1

\* RemoveSendingStream(stream)
RemoveSendingStream(stream) ==
  /\ WorkerCall
  /\ stream_calls < MaxStreamCalls
  /\ LET count == IF stream \in DOMAIN sending_streams_ THEN 1 ELSE 0
         m == [s \in DOMAIN sending_streams_ \ {stream} |-> sending_streams_[s]]
     IN /\ sending_streams_' = m
        /\ IF RemoveDcheckFails(count)
             THEN /\ audio_state' = "aborted"
                  /\ UNCHANGED << sending_update, updates, absent_removes,
                                  last_op, stream_calls, last_add >>
             ELSE /\ sending_update' = UpdateAudioTransportWithSendingStreams(m)
                  /\ updates' = updates + 1
                  /\ absent_removes' = absent_removes + (1 - count)
                  /\ last_op' = "remove"
                  /\ stream_calls' = stream_calls + 1
                  /\ last_add' = no_add
                  /\ UNCHANGED audio_state
  /\ UNCHANGED << dcheck_is_on, playout_vars, recording_vars, ref_vars >>
  /\ UNCHANGED cadence_vars

\* SetPlayout returns at once: enabled == currently_enabled.
SetPlayoutReturnsEarly_Never(enabled) == FALSE

SetPlayoutReturnsEarly(enabled) == enabled = (null_audio_poller_ = FALSE)

\* SetPlayout(enabled), up to the early return.  A run of calls collects the
\* consecutive SetPlayout calls that pass the same argument.
SetPlayout(enabled) ==
  /\ WorkerCall
  /\ (run_len > 0 /\ enabled = run_arg) => run_len < MaxRun
  /\ IF run_len > 0 /\ enabled = run_arg
       THEN /\ run_len' = run_len + 1
            /\ UNCHANGED << run_arg, run_voe_calls, run_poller_ops,
                            run_first_changed >>
       ELSE /\ run_arg' = enabled
            /\ run_len' = 1
            /\ run_voe_calls' = 0
            /\ run_poller_ops' = 0
            /\ run_first_changed' = (enabled = null_audio_poller_)
  /\ IF SetPlayoutReturnsEarly(enabled)
       THEN UNCHANGED << set_playout_pc, set_playout_enabled >>
       ELSE /\ set_playout_pc' = "reset"
            /\ set_playout_enabled' = enabled
  /\ UNCHANGED << dcheck_is_on, audio_state, stream_vars, null_audio_poller_,
                  voe_playout, recording_vars, ref_vars >>
  /\ UNCHANGED cadence_vars

\* if (enabled) null_audio_poller_.reset();
SetPlayoutResetPoller_Forgotten ==
  /\ set_playout_pc = "reset"
  /\ set_playout_pc' = "voe"
  /\ UNCHANGED << dcheck_is_on, audio_state, stream_vars, null_audio_poller_,
                  voe_playout, set_playout_enabled, run_arg, run_len,
                  run_voe_calls, run_poller_ops, run_first_changed,
                  recording_vars, ref_vars >>
  /\ UNCHANGED cadence_vars

SetPlayoutResetPoller ==
  /\ set_playout_pc = "reset"
  /\ IF set_playout_enabled
       THEN /\ null_audio_poller_' = FALSE
            /\ run_poller_ops' =
                 run_poller_ops + (IF null_audio_poller_ THEN 1 ELSE 0)
       ELSE UNCHANGED << null_audio_poller_, run_poller_ops >>
  /\ set_playout_pc' = "voe"
  /\ UNCHANGED << dcheck_is_on, audio_state, stream_vars, voe_playout,
                  set_playout_enabled, run_arg, run_len, run_voe_calls,
                  run_first_changed, recording_vars, ref_vars >>
  /\ UNCHANGED cadence_vars

\* voe_base_->SetPlayout(enabled);
SetPlayoutVoe ==
  /\ set_playout_pc = "voe"
  /\ voe_playout' = set_playout_enabled
  /\ run_voe_calls' = run_voe_calls + 1
  /\ set_playout_pc' = "make"
  /\ UNCHANGED << dcheck_is_on, audio_state, stream_vars, null_audio_poller_,
                  set_playout_enabled, run_arg, run_len, run_poller_ops,
                  run_first_changed, recording_vars, ref_vars >>
  /\ UNCHANGED cadence_vars

\* if (!enabled) null_audio_poller_ = MakeUnique<NullAudioPoller>(...);
SetPlayoutMakePoller_Forgotten ==
  /\ set_playout_pc = "make"
  /\ set_playout_pc' = "idle"
  /\ set_playout_enabled' = TRUE
  /\ UNCHANGED << dcheck_is_on, audio_state, stream_vars, null_audio_poller_,
                  voe_playout, run_arg, run_len, run_voe_calls, run_poller_ops,
                  run_first_changed, recording_vars, ref_vars >>
  /\ UNCHANGED cadence_vars

SetPlayoutMakePoller ==
  /\ set_playout_pc = "make"
  /\ IF ~set_playout_enabled
       THEN /\ null_audio_poller_' = TRUE
            /\ run_poller_ops' = run_poller_ops + 1
       ELSE UNCHANGED << null_audio_poller_, run_poller_ops >>
  /\ set_playout_pc' = "idle"
  /\ set_playout_enabled' = TRUE
  /\ UNCHANGED << dcheck_is_on, audio_state, stream_vars, voe_playout,
                  run_arg, run_len, run_voe_calls, run_first_changed,
                  recording_vars, ref_vars >>
  /\ UNCHANGED cadence_vars

\* SetRecording(enabled)
SetRecording_Deduplicated(enabled) ==
  /\ WorkerCall
  /\ Len(set_recording_args) < MaxRecordingCalls
  /\ IF enabled = voe_recording
       THEN UNCHANGED << voe_recording, recording_calls >>
       ELSE /\ voe_recording' = enabled
            /\ recording_calls' = recording_calls + 1
  /\ set_recording_args' = Append(set_recording_args, enabled)
  /\ UNCHANGED << dcheck_is_on, audio_state, stream_vars, playout_vars,
                  ref_vars >>
  /\ UNCHANGED cadence_vars

SetRecording(enabled) ==
  /\ WorkerCall
  /\ Len(set_recording_args) < MaxRecordingCalls
  /\ voe_recording' = enabled
  /\ recording_calls' = recording_calls + 1
  /\ set_recording_args' = Append(set_recording_args, enabled)
  /\ UNCHANGED << dcheck_is_on, audio_state, stream_vars, playout_vars,
                  ref_vars >>
  /\ UNCHANGED cadence_vars

\* AddRef(), by a holder that copies a reference some holder owns.
AddRef(h) ==
  /\ audio_state = "alive"
  /\ \E g \in Holders : held[g] > 0
  /\ ref_count_ < MaxRefs
  /\ ref_count_' = ref_count_ + 1
  /\ held' = [held EXCEPT ![h] = @ + 1]
  /\ UNCHANGED << dcheck_is_on, audio_state, stream_vars, playout_vars,
                  recording_vars, release_pc, release_result, last_status,
                  deletes >>
  /\ UNCHANGED cadence_vars

\* Release(), first step: AtomicOps::Decrement(&ref_count_) gives up one of
\* the holder's references and returns the new count.
ReleaseDecrement(h) ==
  /\ audio_state = "alive"
  /\ held[h] > 0
  /\ release_pc[h] = "idle"
  /\ h = WorkerThread => set_playout_pc = "idle"
  /\ ref_count_' = ref_count_ - 1
  /\ release_result' = [release_result EXCEPT ![h] = ref_count_ - 1]
  /\ held' = [held EXCEPT ![h] = @ - 1]
  /\ release_pc' = [release_pc EXCEPT ![h] = "decremented"]
  /\ UNCHANGED << dcheck_is_on, audio_state, stream_vars, playout_vars,
                  recording_vars, last_status, deletes >>
  /\ UNCHANGED cadence_vars

\* if (Decrement(&ref_count_) == 0)
DroppedLastRef_OffByOne(result) == result <= 1

DroppedLastRef(result) == result = 0

\* ~AudioState(): an RTC_DCHECK of the destructor fails.
DestructorDcheckFails_ThreadOnly(h) == dcheck_is_on /\ h # WorkerThread

DestructorDcheckFails(h) ==
  dcheck_is_on /\ (h # WorkerThread \/ DOMAIN sending_streams_ # {})

\* Release(), second step: `delete this` and the status returned.
ReleaseReturn(h) ==
  /\ audio_state # "aborted"
  /\ release_pc[h] = "decremented"
  /\ IF DroppedLastRef(release_result[h])
       THEN /\ deletes' = deletes + 1
            /\ IF DestructorDcheckFails(h)
                 THEN /\ audio_state' = "aborted"
                      /\ UNCHANGED last_status
                 ELSE /\ audio_state' = "destroyed"
                      /\ last_status' =
                           [last_status EXCEPT ![h] = "kDroppedLastRef"]
       ELSE /\ last_status' = [last_status EXCEPT ![h] = "kOtherRefsRemained"]
            /\ UNCHANGED << deletes, audio_state >>
  /\ release_pc' = [release_pc EXCEPT ![h] = "idle"]
  /\ release_result' = [release_result EXCEPT ![h] = 0]
  /\ UNCHANGED << dcheck_is_on, stream_vars, playout_vars, recording_vars,
                  ref_count_, held >>
  /\ UNCHANGED cadence_vars

\* ======================================================== specifications
\* The frame cadence adapter, next to a freshly constructed AudioState.
Init ==
  /\ CadenceInit
  /\ dcheck_is_on = TRUE
  /\ AudioConstructed

Next ==
  \/ Initialize
  \/ \E enabled \in BOOLEAN : SetZeroHertzModeEnabled(enabled)
  \/ OnFrameIncrement
  \/ OnFramePost
  \/ OnDiscardedFrame
  \/ \E c \in ConstraintInputs : OnConstraintsChanged(c)
  \/ ConstraintsTaskRun
  \/ FrameTaskFetchSub
  \/ OnFrameOnMainQueue
  \/ MaybeReportFrameRateConstraintUmas
  \/ DropTask
  \/ Destroy

Spec == Init /\ [][Next]_vars

\* The next step of the owner thread: the rest of the task it is in, or the
\* task at the head of the queue.
OwnerThreadStep ==
  \/ ConstraintsTaskRun
  \/ FrameTaskFetchSub
  \/ OnFrameOnMainQueue
  \/ MaybeReportFrameRateConstraintUmas
  \/ DropTask

\* The same, with an owner thread that keeps running: the task queue takes
\* the task at its head whenever it is not inside a task, and a task that has
\* started runs to its end.  Nothing is assumed of the producer.
FairSpec == Spec /\ WF_vars(OwnerThreadStep)

\* The telemetry check on every pair of constraints: the owner thread stands
\* before MaybeReportFrameRateConstraintUmas in the task of the first frame.
FpsValues == (0..MaxFps) \cup {NoValue}

UmaInit ==
  /\ callback_ = TRUE
  /\ source_constraints_ \in
       {nullopt_constraints} \cup
       {Constraints(mn, mx) : mn \in FpsValues, mx \in FpsValues}
  /\ zero_hertz_and_uma_reporting_enabled_ \in BOOLEAN
  /\ has_reported_screenshare_frame_rate_umas_ = FALSE
  /\ frames_scheduled_for_processing_ = 0
  /\ safety_ = TRUE
  /\ queue_ = << >>
  /\ clock_ = 1
  /\ on_frame_pc = "idle"
  /\ on_frame_post_time = 0
  /\ task_pc = "report"
  /\ task_post_time = 0
  /\ task_frame = 1
  /\ task_count = 1
  /\ frames_issued = 1
  /\ delivered = 1
  /\ last_delivery = [post_time |-> 0, count |-> 1, frame |-> 1]
  /\ discarded = 0
  /\ samples = {}
  /\ uma_reports = 0
  /\ session_emits = 0
  /\ session_checks = 0
  /\ dropped_tasks = 0
  /\ discard_calls = 0
  /\ posted_constraints = source_constraints_
  /\ posted_before =
       [f \in 1..MaxFrames |->
          IF f = 1 THEN source_constraints_ ELSE nullopt_constraints]
  /\ dcheck_is_on = TRUE
  /\ AudioConstructed

UmaNext == MaybeReportFrameRateConstraintUmas

UmaSpec == UmaInit /\ [][UmaNext]_vars

\* The AudioState on its worker thread, in a build with or without DCHECKs.
AudioInit ==
  /\ CadenceInit
  /\ dcheck_is_on \in BOOLEAN
  /\ AudioConstructed

AudioNext ==
  \/ \E stream \in StreamIds, sample_rate_hz \in SampleRates,
        num_channels \in NumChannels :
       AddSendingStream(stream, sample_rate_hz, num_channels)
  \/ \E stream \in StreamIds : RemoveSendingStream(stream)
  \/ \E enabled \in BOOLEAN : SetPlayout(enabled)
  \/ SetPlayoutResetPoller
  \/ SetPlayoutVoe
  \/ SetPlayoutMakePoller

AudioSpec == AudioInit /\ [][AudioNext]_vars

\* The AudioState on its worker thread with recording switched as well, next
\* to playout and to one send stream that comes and goes.
RecordingNext ==
  \/ \E enabled \in BOOLEAN : SetRecording(enabled)
  \/ \E enabled \in BOOLEAN : SetPlayout(enabled)
  \/ SetPlayoutResetPoller
  \/ SetPlayoutVoe
  \/ SetPlayoutMakePoller
  \/ AddSendingStream(1, 16000, 1)
  \/ RemoveSendingStream(1)

RecordingSpec == AudioInit /\ [][RecordingNext]_vars

\* The AudioState shared by holders on several threads, with one send stream
\* that comes and goes.
RefNext ==
  \/ \E h \in Holders : AddRef(h)
  \/ \E h \in Holders : ReleaseDecrement(h)
  \/ \E h \in Holders : ReleaseReturn(h)
  \/ AddSendingStream(1, 16000, 1)
  \/ RemoveSendingStream(1)

RefSpec == AudioInit /\ [][RefNext]_vars

\* ================================================================ claims
\* ---------------------------------------------------------------- C1
\* C1: while the adapter is alive the pending counter is never negative, and
\* the count a frame task takes at its fetch_sub -- the count it then hands to
\* the callback -- is the number of OnFrame calls that have incremented minus
\* the number of deliveries completed: at least 1, at most the calls issued,
\* and N-k+1 for the k-th of N frames issued before the first task ran.
C1_PendingCount ==
  /\ [](safety_ => frames_scheduled_for_processing_ >= 0)
  /\ [][ /\ (task_pc = "idle" /\ task_pc' = "deliver") =>
              /\ task_count' = frames_issued - delivered
              /\ task_count' >= 1
              /\ task_count' <= frames_issued
         /\ (delivered' # delivered) =>
              /\ delivered' = delivered + 1
              /\ last_delivery'.count = task_count ]_vars

\* Two frames were issued before the first task ran; the first delivery
\* reported 2.
C1_Witness ==
  /\ delivered = 1
  /\ frames_issued = 2
  /\ last_delivery.count = 2
  /\ Len(queue_) = 1
  /\ task_pc = "idle"

\* ---------------------------------------------------------------- C2
\* C2: once the adapter is destroyed no step invokes the callback, records
\* telemetry, changes the pending counter or writes the stored constraints
\* or flags: the tasks still queued are taken and dropped.
C2_DroppedAfterDestroy ==
  [][ ~safety_ =>
        /\ UNCHANGED << delivered, last_delivery, discarded >>
        /\ UNCHANGED << samples, uma_reports, session_emits, session_checks >>
        /\ UNCHANGED frames_scheduled_for_processing_
        /\ UNCHANGED members
        /\ task_pc' = "idle" ]_vars

\* The adapter was destroyed with two tasks queued, a frame task among them;
\* both have been dropped and the counter still counts the frame.
C2_Witness ==
  /\ ~safety_
  /\ dropped_tasks = 2
  /\ queue_ = << >>
  /\ frames_scheduled_for_processing_ >= 1
  /\ delivered = 0

\* ---------------------------------------------------------------- C3
\* C3: in the time since zero-hertz mode last went from off to on, telemetry
\* has been reported at most once, and exactly once as soon as one frame has
\* been delivered with the mode on (so at the first such delivery, whatever
\* the number of frames and of repeated SetZeroHertzModeEnabled calls).
C3_OncePerSession ==
  /\ session_emits <= 1
  /\ session_checks >= 1 => session_emits = 1

\* A second session: two reports in all, one of them in the current session,
\* in which two frames have been delivered.
C3_Witness ==
  /\ uma_reports = 2
  /\ session_emits = 1
  /\ session_checks >= 2

\* ---------------------------------------------------------------- C4
Reported == uma_reports = 1 /\ task_pc = "idle"

BothPresent ==
  /\ source_constraints_.has_value
  /\ has_value(source_constraints_.min_fps)
  /\ has_value(source_constraints_.max_fps)

SamplesOf(name) == { x \in samples : x[1] = name }

\* C4 as stated: with min_fps >= max_fps the report holds no joint sample and
\* no MinLessThanMax sample, and holds the min and max values.
C4_Original ==
  (Reported /\ BothPresent
     /\ source_constraints_.min_fps >= source_constraints_.max_fps) =>
    /\ SamplesOf("60MinPlusMaxMinusOne") = {}
    /\ SamplesOf("MinLessThanMax.Min") = {}
    /\ SamplesOf("MinLessThanMax.Max") = {}
    /\ SamplesOf("Min.Value") = {<<"Min.Value", source_constraints_.min_fps>>}
    /\ SamplesOf("Max.Value") = {<<"Max.Value", source_constraints_.max_fps>>}

\* C4 (amended): with min_fps >= max_fps the report holds no MinLessThanMax
\* sample, holds the min and max values, and does hold the joint sample
\* min_fps*60 + max_fps - 1.
C4_Amended ==
  (Reported /\ BothPresent
     /\ source_constraints_.min_fps >= source_constraints_.max_fps) =>
    /\ SamplesOf("60MinPlusMaxMinusOne") =
         {<<"60MinPlusMaxMinusOne",
            source_constraints_.min_fps * 60
              + source_constraints_.max_fps - 1>>}
    /\ SamplesOf("MinLessThanMax.Min") = {}
    /\ SamplesOf("MinLessThanMax.Max") = {}
    /\ SamplesOf("Min.Value") = {<<"Min.Value", source_constraints_.min_fps>>}
    /\ SamplesOf("Max.Value") = {<<"Max.Value", source_constraints_.max_fps>>}

\* The report for min=30, max=10: values 30 and 10 and the joint sample 1809.
C4_Witness ==
  /\ Reported
  /\ source_constraints_ = Constraints(30, 10)
  /\ <<"Min.Value", 30>> \in samples
  /\ <<"Max.Value", 10>> \in samples
  /\ <<"60MinPlusMaxMinusOne", 1809>> \in samples

\* ---------------------------------------------------------------- C5
\* C5: with min_fps < max_fps the report holds exactly one joint sample,
\* min_fps*60 + max_fps - 1, and the two values under the MinLessThanMax
\* names; for max_fps <= 60 the joint sample is below the boundary 3659.
\* With only max_fps present the report holds it under MinUnset.Max and holds
\* no joint sample.
C5_JointBucket ==
  /\ kMaxBucketCount = 3659
  /\ (Reported /\ BothPresent
        /\ source_constraints_.min_fps < source_constraints_.max_fps) =>
       /\ Cardinality(SamplesOf("60MinPlusMaxMinusOne")) = 1
       /\ \A x \in SamplesOf("60MinPlusMaxMinusOne") :
            /\ x[2] = source_constraints_.min_fps * 60
                        + source_constraints_.max_fps - 1
            /\ source_constraints_.max_fps <= 60 => x[2] < kMaxBucketCount
       /\ SamplesOf("MinLessThanMax.Min") =
            {<<"MinLessThanMax.Min", source_constraints_.min_fps>>}
       /\ SamplesOf("MinLessThanMax.Max") =
            {<<"MinLessThanMax.Max", source_constraints_.max_fps>>}
  /\ (Reported /\ source_constraints_.has_value
        /\ ~has_value(source_constraints_.min_fps)
        /\ has_value(source_constraints_.max_fps)) =>
       /\ SamplesOf("MinUnset.Max") =
            {<<"MinUnset.Max", source_constraints_.max_fps>>}
       /\ SamplesOf("60MinPlusMaxMinusOne") = {}

\* The report for min=10, max=30: the joint sample is 629.
C5_Witness ==
  /\ Reported
  /\ source_constraints_ = Constraints(10, 30)
  /\ SamplesOf("60MinPlusMaxMinusOne") = {<<"60MinPlusMaxMinusOne", 629>>}

\* ---------------------------------------------------------------- C6
Largest(S) == CHOOSE x \in S : \A y \in S : y <= x

Elements(seq) == { seq[i] : i \in 1..Len(seq) }

\* The last pushed aggregate is the one the current map determines.
AggregateOfCurrentMap ==
  /\ sending_update.max_sample_rate_hz =
       Largest({8000} \cup { sending_streams_[s].sample_rate_hz :
                               s \in DOMAIN sending_streams_ })
  /\ sending_update.max_num_channels =
       Largest({1} \cup { sending_streams_[s].num_channels :
                            s \in DOMAIN sending_streams_ })
  /\ Elements(sending_update.sending_streams) = DOMAIN sending_streams_
  /\ Len(sending_update.sending_streams) = Cardinality(DOMAIN sending_streams_)

\* C6: after any AddSendingStream / RemoveSendingStream calls the aggregate
\* last pushed to the transport is max(8000, every rate), max(1, every channel
\* count) and the current keys, each once.
C6_AggregateIsPure == updates > 0 => AggregateOfCurrentMap

\* Add(1,..), Add(2,48000,2), Remove(1) has pushed (48000, 2, [2]).
C6_Witness ==
  /\ updates = 3
  /\ last_op = "remove"
  /\ absent_removes = 0
  /\ DOMAIN sending_streams_ = {2}
  /\ sending_update = [sending_streams |-> << 2 >>,
                       max_sample_rate_hz |-> 48000, max_num_channels |-> 2]

\* ---------------------------------------------------------------- C7
\* C7: within a run of consecutive SetPlayout calls with the same argument
\* the transport is told at most once and the null poller is constructed or
\* destroyed at most once; between calls, exactly once if the run's first
\* call found the other state and not at all otherwise.
C7_SetPlayoutIdempotent ==
  /\ run_voe_calls <= 1
  /\ run_poller_ops <= 1
  /\ (set_playout_pc = "idle" /\ run_len >= 1) =>
       /\ run_voe_calls = (IF run_first_changed THEN 1 ELSE 0)
       /\ run_poller_ops = (IF run_first_changed THEN 1 ELSE 0)

\* SetPlayout(false); SetPlayout(false): one transport call, one poller.
C7_Witness ==
  /\ set_playout_pc = "idle"
  /\ run_len = 2
  /\ run_arg = FALSE
  /\ run_first_changed
  /\ run_voe_calls = 1
  /\ run_poller_ops = 1
  /\ null_audio_poller_
  /\ ~voe_playout

\* ---------------------------------------------------------------- C8
RECURSIVE SumHeld(_)
SumHeld(S) ==
  IF S = {} THEN 0
  ELSE LET h == CHOOSE x \in S : TRUE IN held[h] + SumHeld(S \ {h})

InRelease(h) == release_pc[h] = "decremented"

C9_PlayoutOrder ==
  /\ [] ~(null_audio_poller_ /\ voe_playout)
  /\ [][ /\ (null_audio_poller_ /\ ~null_audio_poller_') =>
              (~voe_playout /\ ~voe_playout')
         /\ (~voe_playout /\ voe_playout') =>
              (~null_audio_poller_ /\ ~null_audio_poller_')
         /\ (voe_playout /\ ~voe_playout') =>
              (~null_audio_poller_ /\ ~null_audio_poller_')
         /\ (~null_audio_poller_ /\ null_audio_poller_') =>
              (~voe_playout /\ ~voe_playout') ]_vars

\* Enabling, half way: the poller is gone and the transport not yet told.
C9_Witness ==
  /\ set_playout_pc = "voe"
  /\ set_playout_enabled
  /\ ~null_audio_poller_
  /\ ~voe_playout
  /\ run_poller_ops = 1

\* ---------------------------------------------------------------- C10
\* C10 as stated: no RemoveSendingStream of an absent stream ever returns,
\* and the pushed aggregate always agrees with the stream collection.
C10_Original ==
  /\ absent_removes = 0
  /\ updates > 0 => AggregateOfCurrentMap

\* C10 (amended): where RTC_DCHECK is compiled in, RemoveSendingStream of an
\* absent stream aborts and never returns; where it is compiled out the call
\* returns, leaving the collection as it was and pushing its aggregate again.
\* In both builds the pushed aggregate always agrees with the collection.
C10_Amended ==
  /\ dcheck_is_on => absent_removes = 0
  /\ audio_state = "aborted" => dcheck_is_on
  /\ absent_removes <= updates
  /\ updates > 0 => AggregateOfCurrentMap

\* A build without DCHECKs: a Remove of an absent stream has returned while
\* another stream is active, and the aggregate is that stream's.
C10_Witness ==
  /\ ~dcheck_is_on
  /\ absent_removes = 1
  /\ last_op = "remove"
  /\ DOMAIN sending_streams_ # {}
  /\ AggregateOfCurrentMap

C12_PlayoutStateMachine ==
  /\ run_len = 0 => (voe_playout /\ ~null_audio_poller_)
  /\ set_playout_pc = "idle" =>
       /\ null_audio_poller_ <=> ~voe_playout
       /\ run_len > 0 => (voe_playout <=> run_arg)
       /\ run_len > 0 => (null_audio_poller_ <=> ~run_arg)
  /\ set_playout_pc # "idle" =>
       /\ set_playout_enabled = run_arg
       /\ ENABLED (SetPlayoutResetPoller \/ SetPlayoutVoe \/ SetPlayoutMakePoller)

\* A SetPlayout(true) that found playout disabled has returned: playout is
\* enabled again and the poller is gone.
C12_Witness ==
  /\ set_playout_pc = "idle"
  /\ run_len = 1
  /\ run_arg
  /\ run_first_changed
  /\ run_poller_ops = 1
  /\ voe_playout
  /\ ~null_audio_poller_

\* ---------------------------------------------------------------- C13
\* The constraints tasks still queued, in post order.
QueuedConstraints == SelectSeq(queue_, LAMBDA t : t.kind = "constraints")

\* The value the stored constraints have once every queued task has run, if
\* each task overwrites: the last queued value, or the stored one.
LastWrite ==
  IF QueuedConstraints = << >>
    THEN source_constraints_
    ELSE QueuedConstraints[Len(QueuedConstraints)].constraints

\* C13: while the adapter is alive the last value passed to
\* OnConstraintsChanged is the last one queued, or, once its task has run, the
\* stored one, whole and unmerged; and the telemetry recorded in a frame's task
\* is computed from the value that was the last one posted when OnFrame posted
\* that frame's task, whatever has been posted since.
C13_LastWriteWins ==
  /\ [](safety_ => posted_constraints = LastWrite)
  /\ [][ (uma_reports' # uma_reports) =>
            /\ samples' = UmaSamples(posted_before[task_frame])
            /\ source_constraints_ = posted_before[task_frame] ]_vars

\* The telemetry of the first frame shows min 10, max 30, posted before the
\* frame; the change to min 30, max 10 posted after the frame is still queued.
C13_Witness ==
  /\ task_pc = "idle"
  /\ delivered = 1
  /\ uma_reports = 1
  /\ samples = UmaSamples(Constraints(10, 30))
  /\ source_constraints_ = Constraints(10, 30)
  /\ queue_ = << ConstraintsTask(Constraints(30, 10)) >>
  /\ posted_constraints = Constraints(30, 10)

\* ---------------------------------------------------------------- C14
\* OnFrame calls that have posted their task.
FramesPosted == frames_issued - (IF on_frame_pc = "post" THEN 1 ELSE 0)

\* C14: the k-th invocation of the callback hands over the frame of the k-th
\* OnFrame call, with the clock reading that call took (the k-th reading, an
\* earlier one than the clock shows at delivery), and no frame is handed over
\* before its task was posted; a frame task first decrements the counter,
\* then invokes the callback, then runs the telemetry check, each step doing
\* nothing of the others; and with an owner thread that keeps running, every
\* frame whose task was posted is delivered unless the adapter is destroyed
\* first: again and again no posted frame of a live adapter is undelivered
\* (neither count ever decreases).
C14_DeliveredOnceInOrder ==
  /\ [](clock_ = frames_issued /\ delivered <= FramesPosted)
  /\ [][ /\ (delivered' # delivered) =>
              /\ delivered' = delivered + 1
              /\ last_delivery'.frame = delivered'
              /\ last_delivery'.post_time = last_delivery'.frame - 1
              /\ last_delivery'.post_time < clock_
              /\ task_pc = "deliver" /\ task_pc' = "report"
              /\ UNCHANGED << frames_scheduled_for_processing_, uma_obs >>
         /\ (task_pc = "idle" /\ task_pc' # "idle") =>
              /\ task_pc' = "deliver"
              /\ frames_scheduled_for_processing_' =
                   frames_scheduled_for_processing_ - 1
              /\ UNCHANGED << callback_obs, uma_obs >>
         /\ (task_pc = "deliver" /\ task_pc' # "deliver") =>
              delivered' = delivered + 1
         /\ (task_pc = "report" /\ task_pc' # "report") =>
              /\ task_pc' = "idle"
              /\ UNCHANGED << frames_scheduled_for_processing_, callback_obs >>
         /\ (uma_obs' # uma_obs /\ zero_hertz_and_uma_reporting_enabled_'
                = zero_hertz_and_uma_reporting_enabled_) =>
              task_pc = "report" ]_vars
  /\ [][delivered' >= delivered /\ FramesPosted' >= FramesPosted]_vars
  /\ []<>(~safety_ \/ delivered = FramesPosted)

\* Three frames have been delivered, the last one the third OnFrame call with
\* the third clock reading, while the clock has moved on.
C14_Witness ==
  /\ safety_
  /\ delivered = 3
  /\ last_delivery.frame = 3
  /\ last_delivery.post_time = 2
  /\ clock_ = 3
  /\ task_pc = "idle"

\* ---------------------------------------------------------------- C15
\* C15: every OnDiscardedFrame call invokes Callback::OnDiscardedFrame once,
\* inside the call, and does nothing else: the queue, the pending counter, the
\* stored constraints, the zero-hertz flag, the has-reported flag, the
\* telemetry, the frame deliveries and both threads' positions stay as they
\* were.
C15_DiscardForwarded ==
  /\ [](discarded = discard_calls)
  /\ [][ (discard_calls' # discard_calls) =>
            /\ discard_calls' = discard_calls + 1
            /\ discarded' = discarded + 1
            /\ UNCHANGED << queue_, frames_scheduled_for_processing_, members,
                            uma_obs, delivered, last_delivery, task_pos,
                            producer_pos, frames_issued, dropped_tasks,
                            posted_constraints, posted_before, safety_,
                            callback_, clock_ >> ]_vars

\* Two frames were discarded while the task of an earlier frame waited in the
\* queue: the counter still counts that one frame.
C15_Witness ==
  /\ discard_calls = 2
  /\ discarded = 2
  /\ frames_issued = 1
  /\ frames_scheduled_for_processing_ = 1
  /\ Len(queue_) = 1
  /\ Head(queue_).kind = "frame"
  /\ delivered = 0

\* ---------------------------------------------------------------- C16
\* A step that runs the telemetry check of a frame task.
TelemetryCheck == task_pc = "report" /\ task_pc' = "idle"

\* C16 as stated: a telemetry check run while zero-hertz mode is disabled
\* records nothing and leaves the has-reported flag as it was, and the flag
\* is set only by a check that records.
C16_Original ==
  [][ /\ (TelemetryCheck /\ ~zero_hertz_and_uma_reporting_enabled_) =>
           UNCHANGED << samples, uma_reports,
                        has_reported_screenshare_frame_rate_umas_ >>
      /\ (has_reported_screenshare_frame_rate_umas_'
            /\ ~has_reported_screenshare_frame_rate_umas_) =>
           uma_reports' = uma_reports + 1 ]_vars

\* C16, amended: a telemetry check run while zero-hertz mode is disabled
\* records nothing, but it does leave the has-reported flag set; a check
\* records only when the mode is enabled and the flag was clear, and sets the
\* flag; a check that finds the flag set changes nothing; the flag is set by
\* telemetry checks alone; and while the mode is enabled the flag is set only
\* if a check has recorded since the mode went on.
C16_Amended ==
  /\ [][ /\ TelemetryCheck =>
              /\ has_reported_screenshare_frame_rate_umas_'
              /\ ~zero_hertz_and_uma_reporting_enabled_ =>
                   UNCHANGED << samples, uma_reports >>
              /\ has_reported_screenshare_frame_rate_umas_ =>
                   UNCHANGED << samples, uma_reports >>
              /\ (zero_hertz_and_uma_reporting_enabled_
                    /\ ~has_reported_screenshare_frame_rate_umas_) =>
                   uma_reports' = uma_reports + 1
         /\ (uma_reports' # uma_reports) =>
              /\ TelemetryCheck
              /\ zero_hertz_and_uma_reporting_enabled_
              /\ ~has_reported_screenshare_frame_rate_umas_
         /\ (has_reported_screenshare_frame_rate_umas_'
               /\ ~has_reported_screenshare_frame_rate_umas_) =>
              TelemetryCheck ]_vars
  /\ []((zero_hertz_and_uma_reporting_enabled_
           /\ has_reported_screenshare_frame_rate_umas_) => session_emits = 1)

\* The first frame was delivered with zero-hertz mode never enabled: nothing
\* was recorded and the flag is set.
C16_Witness ==
  /\ task_pc = "idle"
  /\ delivered = 1
  /\ ~zero_hertz_and_uma_reporting_enabled_
  /\ has_reported_screenshare_frame_rate_umas_
  /\ uma_reports = 0
  /\ samples = {}

\* ---------------------------------------------------------------- C17
\* A step in which an AddSendingStream call returns.
AddReturns == stream_calls' = stream_calls + 1 /\ last_op' = "add"

\* C17: an AddSendingStream(stream, rate, channels) call leaves the map with
\* the keys it had and `stream`, each once, holding (rate, channels) for
\* `stream` and what they held for the others, so a stream already present
\* keeps the number of entries; a call that repeats what the map holds for
\* `stream` leaves the map and the arguments of UpdateSendingStreams as they
\* were; and every call, that one too, calls UpdateSendingStreams once.
C17_AddIsUpsert ==
  [][ AddReturns =>
        LET stream == last_add'.stream
            properties == StreamProperties(last_add'.sample_rate_hz,
                                           last_add'.num_channels)
            present == stream \in DOMAIN sending_streams_
        IN /\ DOMAIN sending_streams_' = DOMAIN sending_streams_ \cup {stream}
           /\ sending_streams_'[stream] = properties
           /\ \A s \in DOMAIN sending_streams_ \ {stream} :
                sending_streams_'[s] = sending_streams_[s]
           /\ present =>
                Cardinality(DOMAIN sending_streams_') =
                  Cardinality(DOMAIN sending_streams_)
           /\ ~present =>
                Cardinality(DOMAIN sending_streams_') =
                  Cardinality(DOMAIN sending_streams_) + 1
           /\ (present /\ sending_streams_[stream] = properties) =>
                /\ sending_streams_' = sending_streams_
                /\ sending_update' = sending_update
           /\ updates' = updates + 1 ]_vars

\* Stream 1 was added twice and no other call was made; the second call gave
\* 16000 Hz and one channel, which is what the map holds and what the
\* transport was told last, in the second of two updates.
C17_Witness ==
  /\ stream_calls = 2
  /\ updates = 2
  /\ absent_removes = 0
  /\ last_op = "add"
  /\ last_add = [stream |-> 1, sample_rate_hz |-> 16000, num_channels |-> 1]
  /\ DOMAIN sending_streams_ = {1}
  /\ sending_streams_[1] = StreamProperties(16000, 1)
  /\ sending_update.max_sample_rate_hz = 16000
  /\ sending_update.max_num_channels = 1

\* ---------------------------------------------------------------- C18
\* C18: every SetRecording call, whatever the calls before it passed, makes
\* one voe_base_->SetRecording call with its own argument, so the transport
\* has been called once per call and last with the last argument; and the
\* call leaves the playout state, the poller, the stream map, the reference
\* count and the lifetime of the AudioState as they were.
C18_RecordingPassthrough ==
  /\ [](recording_calls = Len(set_recording_args))
  /\ [](set_recording_args # << >> =>
          voe_recording = set_recording_args[Len(set_recording_args)])
  /\ [][ (set_recording_args' # set_recording_args) =>
            /\ Len(set_recording_args') = Len(set_recording_args) + 1
            /\ recording_calls' = recording_calls + 1
            /\ voe_recording' = set_recording_args'[Len(set_recording_args')]
            /\ UNCHANGED << playout_vars, stream_vars, ref_vars, audio_state >>
     ]_vars

\* SetRecording(true) was called twice in a row, with playout disabled and a
\* stream registered: the transport was called twice.
C18_Witness ==
  /\ set_recording_args = << TRUE, TRUE >>
  /\ recording_calls = 2
  /\ voe_recording
  /\ null_audio_poller_
  /\ DOMAIN sending_streams_ = {1}
  /\ ref_count_ = 1

\* ---------------------------------------------------------------- C19
\* What the reference machine does at a telemetry check: it records when
\* zero-hertz mode is enabled and nothing has been recorded since the mode
\* last went from off to on.
ReferenceEmits ==
  zero_hertz_and_uma_reporting_enabled_ /\ session_emits = 0

\* C19: a telemetry check records exactly when the reference machine does,
\* whether or not an earlier check, run with the mode off, has set the
\* has-reported flag; and nothing but a telemetry check records.
C19_EmissionEquivalence ==
  [][ /\ TelemetryCheck =>
           ((uma_reports' = uma_reports + 1) <=> ReferenceEmits)
      /\ TelemetryCheck =>
           (uma_reports' = uma_reports \/ uma_reports' = uma_reports + 1)
      /\ (uma_reports' # uma_reports \/ samples' # samples) =>
           TelemetryCheck ]_vars

\* A frame was delivered with the mode off, which set the flag; the mode
\* went on, and the next frame's check recorded.
C19_Witness ==
  /\ task_pc = "idle"
  /\ zero_hertz_and_uma_reporting_enabled_
  /\ has_reported_screenshare_frame_rate_umas_
  /\ delivered = 2
  /\ uma_reports = 1
  /\ session_checks = 1
  /\ session_emits = 1

\* ---------------------------------------------------------------- C20
\* Frame tasks posted and not yet started.
QueuedFrames == Len(SelectSeq(queue_, LAMBDA t : t.kind = "frame"))

\* C20: while the adapter is alive the pending counter is the number of frame
\* tasks queued and not yet started, plus one exactly while an OnFrame call
\* has incremented and not yet posted: never less than the number queued,
\* never more than that number plus one, and 0 once the producer is outside
\* OnFrame and no frame task is queued.
C20_CounterVersusQueue ==
  /\ safety_ =>
       /\ frames_scheduled_for_processing_ >= QueuedFrames
       /\ frames_scheduled_for_processing_ <= QueuedFrames + 1
       /\ frames_scheduled_for_processing_ =
            QueuedFrames + (IF on_frame_pc = "post" THEN 1 ELSE 0)
  /\ (safety_ /\ on_frame_pc = "idle" /\ QueuedFrames = 0) =>
       frames_scheduled_for_processing_ = 0

\* Two frame tasks wait in the queue and a third OnFrame call has incremented
\* the counter but not yet posted: the counter is 3.
C20_Witness ==
  /\ safety_
  /\ on_frame_pc = "post"
  /\ QueuedFrames = 2
  /\ frames_scheduled_for_processing_ = 3
  /\ task_pc = "idle"
====
